---- MODULE Spec2Model ----
(***************************************************************************)
(* Model of CapturGo-base:                                                 *)
(*   src/components/EditProfile.tsx  (Claim button, wallet validation,     *)
(*                                    updateProfile)                       *)
(*   src/components/Rewards.tsx      (accumulation timer, loadSavedState,  *)
(*                                    mintTokensToUser, storage keys)      *)
(*                                                                         *)
(* The specifications share the variables: Spec follows the claim          *)
(* pipeline (SpecF adds fairness of its awaited steps), SpecR the Rewards  *)
(* view (SpecN without the toggle), SpecP the profile save, SpecV the      *)
(* address validator on typed input, SpecS the sharing flag as both        *)
(* screens see it, SpecAll and SpecM the claim pipeline and the Rewards    *)
(* view on the storage they share.                                         *)
(*                                                                         *)
(* Balances are counted in hundredths of a token (12.34 is 1234).          *)
(* JavaScript values are records: k is the kind ("num", "null", "nan",     *)
(* "str"), v the number of hundredths, s the characters of a string.       *)
(* React state is modelled as React keeps it: st is the hook state (what   *)
(* the setters have written), ui is the closure of the last committed      *)
(* render (what the buttons and handlers on screen see).                   *)
(***************************************************************************)
EXTENDS Integers, Sequences, FiniteSets

VARIABLES st, ui, effAddr, inv, nInv, localStore, remote

\* the Rewards screen (Rewards.tsx)
VARIABLES focus, mounted, rs, deps, timers, iref, flagStore, pendingSave,
          loads, hist

\* the profile form and its save (EditProfile.tsx, updateProfile); psh is
\* the screen's sharing flag and the load that sets it
VARIABLES pst, pui, sv, nSv, prow, psh

rwVars ==
  <<focus, mounted, rs, deps, timers, iref, flagStore, pendingSave,
    loads, hist>>

profVars == <<pst, pui, sv, nSv, prow, psh>>

claimVars == <<st, ui, effAddr, inv, nInv, remote>>

vars == <<st, ui, effAddr, inv, nInv, localStore, remote, rwVars, profVars>>

---------------------------------------------------------------------------
(* Bounds of the model                                                     *)

\* number of claim presses followed
MaxInv == 2

\* number of accumulation ticks followed
MaxTicks == 2

\* number of loadSavedState calls that can be in flight together
MaxLoads == 1

\* number of interval timers that can be told apart
MaxTimers == 2

\* number of profile saves followed
MaxSaves == 2

---------------------------------------------------------------------------
(* JavaScript values                                                       *)

Null == [k |-> "null", v |-> 0, s |-> <<>>]
NaN == [k |-> "nan", v |-> 0, s |-> <<>>]
Num(n) == [k |-> "num", v |-> n, s |-> <<>>]
Str(chars) == [k |-> "str", v |-> 0, s |-> chars]

\* !x for the values the pipeline tests: null, NaN, 0 and "" are falsy
Falsy(x) ==
  \/ x.k \in {"null", "nan"}
  \/ x.k = "num" /\ x.v = 0
  \/ x.k = "str" /\ x.s = <<>>

\* x > 0 and x <= 0 on numbers; both are false on NaN
GtZero(x) == x.k = "num" /\ x.v > 0
LeZero(x) == x.k = "num" /\ x.v <= 0

Digits == <<"0", "1", "2", "3", "4", "5", "6", "7", "8", "9">>
DigitChar(d) == Digits[d + 1]
DigitChars == {Digits[i] : i \in 1..10}
DigitVal(c) == CHOOSE d \in 0..9 : Digits[d + 1] = c

RECURSIVE NatChars(_)
NatChars(n) ==
  IF n < 10 THEN <<DigitChar(n)>>
  ELSE NatChars(n \div 10) \o <<DigitChar(n % 10)>>

\* Number.prototype.toString of h hundredths: "12.34", "12.3", "12", "-0.05"
DecimalChars(h) ==
  LET a == IF h < 0 THEN -h ELSE h
      ip == a \div 100
      fp == a % 100
      sign == IF h < 0 THEN <<"-">> ELSE <<>>
      frac == IF fp = 0 THEN <<>>
              ELSE IF fp % 10 = 0 THEN <<".", DigitChar(fp \div 10)>>
              ELSE <<".", DigitChar(fp \div 10), DigitChar(fp % 10)>>
  IN sign \o NatChars(ip) \o frac

\* x.toString() of a number value
NumberToString(x) == Str(DecimalChars(x.v))

\* the longest prefix of chars made of digits
RECURSIVE DigitPrefix(_)
DigitPrefix(chars) ==
  IF chars = <<>> \/ Head(chars) \notin DigitChars THEN <<>>
  ELSE <<Head(chars)>> \o DigitPrefix(Tail(chars))

RECURSIVE DigitsValue(_)
DigitsValue(chars) ==
  IF chars = <<>> THEN 0
  ELSE 10 * DigitsValue(SubSeq(chars, 1, Len(chars) - 1))
       + DigitVal(chars[Len(chars)])

\* parseFloat: optional sign, digits, optional fraction; the longest numeric
\* prefix is read and NaN is returned when there is none.  The result is in
\* hundredths: fraction digits past the second are dropped.
ParseFloat(chars) ==
  LET neg == chars # <<>> /\ Head(chars) = "-"
      body == IF chars # <<>> /\ Head(chars) \in {"-", "+"}
              THEN Tail(chars) ELSE chars
      ip == DigitPrefix(body)
      rest == SubSeq(body, Len(ip) + 1, Len(body))
      fp == IF rest # <<>> /\ Head(rest) = "." THEN DigitPrefix(Tail(rest))
            ELSE <<>>
      d1 == IF Len(fp) >= 1 THEN DigitVal(fp[1]) ELSE 0
      d2 == IF Len(fp) >= 2 THEN DigitVal(fp[2]) ELSE 0
      mag == 100 * DigitsValue(ip) + 10 * d1 + d2
  IN IF ip = <<>> /\ fp = <<>> THEN NaN
     ELSE Num(IF neg THEN -mag ELSE mag)

---------------------------------------------------------------------------
(* Wallet addresses                                                        *)

HexChars ==
  DigitChars \cup {"a", "b", "c", "d", "e", "f", "A", "B", "C", "D", "E", "F"}

\* the pattern without its end anchor: a 42-character match followed by more
MatchesAddressPrefix(address) ==
  /\ Len(address) >= 42
  /\ address[1] = "0"
  /\ address[2] = "x"
  /\ \A i \in 3..42 : address[i] \in HexChars

\* the body of validateWalletAddress with the final test of the regular
\* expression left to its caller
MatchesAddressRegex(address) ==
  /\ Len(address) = 42
  /\ address[1] = "0"
  /\ address[2] = "x"
  /\ \A i \in 3..42 : address[i] \in HexChars

validateWalletAddress(address) ==
  IF address = <<>> THEN FALSE ELSE MatchesAddressRegex(address)

AddrEmpty == <<>>
AddrShort == <<"0", "x", "1", "2", "3">>
AddrValid ==
  <<"0", "x">> \o
  <<"A", "B", "a", "b", "1", "2", "3", "4", "5", "6",
    "7", "8", "9", "0", "a", "b", "c", "d", "e", "f",
    "1", "2", "3", "4", "5", "6", "7", "8", "9", "0",
    "A", "B", "C", "D", "E", "F", "1", "2", "3", "4">>

\* what the user types or the loaded profile holds
Addresses == {AddrShort, AddrValid}

---------------------------------------------------------------------------
(* Messages shown to the user                                              *)

NoMsg == "<null>"
MsgNoUser == "No user found"
MsgNoBalance == "No balance to claim."
MsgChain == "Only Base chain is supported for claiming tokens at the moment."
MsgSuccess == "Tokens claimed and balance reset!"
MsgFallback == "Claim failed."

\* err.message || 'Claim failed.'
Surface(msg) == IF msg = "" THEN MsgFallback ELSE msg

---------------------------------------------------------------------------
(* State                                                                   *)

Range(f) == {f[x] : x \in DOMAIN f}

\* a claim invocation that has not been started
IdleInv ==
  [pc |-> "idle", addr |-> <<>>, chain |-> "Base",
   user |-> "unset", localBalance |-> Null, balance |-> Null,
   mintArg |-> Null, minted |-> FALSE,
   trace |-> <<>>, stopped |-> "none", out |-> NoMsg, dirty |-> FALSE]

\* a profile save that has not been started
IdleSave ==
  [pc |-> "idle", username |-> <<>>, email |-> "", authEmail |-> "",
   trace |-> <<>>, stopped |-> "none", error |-> NoMsg, success |-> NoMsg]

\* where a running loadSavedState call can be: at one of its three awaits,
\* and live or not (not live once the component that started it has been
\* unmounted: its setters then do nothing)
LoadStates == {"flag", "saveDefault", "balance"} \X BOOLEAN

\* no loadSavedState call is running
NoLoads == [x \in LoadStates |-> 0]

\* no profile row for the user yet
NoRow == [exists |-> FALSE, username |-> <<>>, email |-> ""]

\* what a render closes over
View(s) ==
  [claiming |-> s.claiming, walletAddress |-> s.walletAddress,
   isAddressValid |-> s.isAddressValid, cryptoChain |-> s.cryptoChain]

\* balances a device and a profile row can hold when the screen opens
LocalInit == {Null, Str(DecimalChars(1234))}
RemoteInit == {Null, Num(500), Num(-100)}

\* the claim screen as it opens
InitClaim ==
  /\ st = [claiming |-> FALSE, walletAddress |-> AddrEmpty,
           isAddressValid |-> FALSE, cryptoChain |-> "Base"]
  /\ ui = View(st)
  /\ effAddr = AddrEmpty
  /\ inv = [i \in 1..MaxInv |-> IdleInv]
  /\ nInv = 0

\* useState(true), useState(0), useRef(null): the Rewards component before
\* its first effects; ghost counters at zero
RewardsFresh ==
  /\ rs = [enabled |-> TRUE, captBalance |-> Num(0)]
  /\ deps = [ran |-> FALSE, enabled |-> FALSE, isFocused |-> FALSE]
  /\ timers = {}
  /\ iref = 0
  /\ pendingSave = "none"
  /\ loads = NoLoads
  /\ hist = [ticks |-> 0, tickWrites |-> 0, userOff |-> FALSE,
             resumed |-> FALSE]

\* the Rewards screen is not on the navigation stack
RewardsAway ==
  /\ RewardsFresh
  /\ focus = FALSE
  /\ mounted = FALSE
  /\ flagStore = "null"

\* useState('') for the form fields, updating false, no save started; the
\* screen's own sharing flag is useState(true) and its load has not begun
ProfileIdle ==
  /\ pst = [username |-> <<>>, email |-> "", updating |-> FALSE]
  /\ pui = pst
  /\ sv = [i \in 1..MaxSaves |-> IdleSave]
  /\ nSv = 0
  /\ prow = NoRow
  /\ psh = [pc |-> "unmounted", isLocationSharingEnabled |-> TRUE]

Init ==
  /\ InitClaim
  /\ localStore \in LocalInit
  /\ remote \in RemoteInit
  /\ RewardsAway
  /\ ProfileIdle

---------------------------------------------------------------------------
(* The profile screen: address field, render, validation effect            *)

\* onChangeText={setWalletAddress}, and getProfile's setWalletAddress
SetWalletAddress(a) ==
  /\ a # st.walletAddress
  /\ st' = [st EXCEPT !.walletAddress = a]
  /\ UNCHANGED <<ui, effAddr, inv, nInv, localStore, remote, rwVars, profVars>>

\* React commits a render of the current hook state; the effects of the
\* previous commit have run by then
Render ==
  /\ ui # View(st)
  /\ effAddr = ui.walletAddress
  /\ ui' = View(st)
  /\ UNCHANGED <<st, effAddr, inv, nInv, localStore, remote, rwVars, profVars>>

\* useEffect(() => setIsAddressValid(validateWalletAddress(walletAddress)),
\* [walletAddress]): runs after a commit in which walletAddress changed
AddressEffect ==
  /\ effAddr # ui.walletAddress
  /\ effAddr' = ui.walletAddress
  /\ st' = [st EXCEPT !.isAddressValid = validateWalletAddress(ui.walletAddress)]
  /\ UNCHANGED <<ui, inv, nInv, localStore, remote, rwVars, profVars>>

---------------------------------------------------------------------------
(* The claim pipeline: one action per awaited operation                    *)

\* the run of invocation i after step `step` was carried out
Did(r, step) == [r EXCEPT !.trace = Append(@, step)]

\* the handler has returned: its closure and the local balance it read are
\* gone; what it did and what the stores answered (user, balance, mintArg,
\* minted, trace, stopped, out) stays on record
Ended(r) ==
  [r EXCEPT !.pc = "done", !.addr = <<>>, !.chain = "Base",
            !.localBalance = Null, !.dirty = FALSE]

\* catch (err) { setError(err.message || 'Claim failed.') } finally
\* { setClaiming(false) } after `step` threw; the message set by setError or
\* setSuccess is recorded as the invocation's out
Threw(i, step, msg) ==
  /\ inv' = [inv EXCEPT ![i] = [Ended(Did(@, step)) EXCEPT
                                  !.stopped = step, !.out = Surface(msg)]]
  /\ st' = [st EXCEPT !.claiming = FALSE]

\* setError(msg); return; finally { setClaiming(false) } after `step`
Returned(r, step, check, msg) ==
  [Ended(Did(r, step)) EXCEPT !.stopped = check, !.out = msg]

\* another invocation's synced value is overwritten before it re-reads it
Clobber(f, i) ==
  [j \in DOMAIN f |->
     IF j # i /\ f[j].pc = "reread" /\ "sync" \in Range(f[j].trace)
     THEN [f[j] EXCEPT !.dirty = TRUE] ELSE f[j]]

\* the Claim button is rendered when isAddressValid and disabled when
\* claiming, both as of the last render; the handler runs to its first await
PressClaim ==
  /\ ui.isAddressValid
  /\ ~ui.claiming
  /\ nInv < MaxInv
  /\ nInv' = nInv + 1
  /\ inv' = [inv EXCEPT ![nInv + 1] =
               [IdleInv EXCEPT !.pc = "getUser", !.addr = ui.walletAddress,
                               !.chain = ui.cryptoChain]]
  /\ st' = [st EXCEPT !.claiming = TRUE]
  /\ UNCHANGED <<ui, effAddr, localStore, remote, rwVars, profVars>>

\* GetUser without the test of user: the pipeline goes on with no user
GetUserNoCheck(i) ==
  /\ inv[i].pc = "getUser"
  /\ \E u \in {"some", "none"} :
       inv' = [inv EXCEPT ![i] =
                 [Did(@, "getUser") EXCEPT !.user = u, !.pc = "readLocal"]]
  /\ UNCHANGED <<st, ui, effAddr, nInv, localStore, remote, rwVars, profVars>>

\* await supabase.auth.getUser(); if (!user) throw new Error('No user found')
GetUser(i) ==
  /\ inv[i].pc = "getUser"
  /\ \/ /\ inv' = [inv EXCEPT ![i] =
                     [Did(@, "getUser") EXCEPT !.user = "some", !.pc = "readLocal"]]
        /\ UNCHANGED st
     \/ /\ inv' = [inv EXCEPT ![i] =
                     [Ended(Did(@, "getUser")) EXCEPT
                        !.user = "none", !.stopped = "getUser", !.out = MsgNoUser]]
        /\ st' = [st EXCEPT !.claiming = FALSE]
  /\ UNCHANGED <<ui, effAddr, nInv, localStore, remote, rwVars, profVars>>

\* localBalanceStr ? parseFloat(localBalanceStr) : 0
LocalBalanceOf(stored) ==
  IF Falsy(stored) THEN Num(0) ELSE ParseFloat(stored.s)

\* await AsyncStorage.getItem('captur_token_balance'), then
\* if (localBalance > 0) the sync write is issued, else the re-read
ReadLocal(i) ==
  /\ inv[i].pc = "readLocal"
  /\ \/ /\ inv' = [inv EXCEPT ![i] =
                     [Did(@, "readLocal") EXCEPT
                        !.localBalance = LocalBalanceOf(localStore),
                        !.pc = IF GtZero(LocalBalanceOf(localStore))
                               THEN "sync" ELSE "reread"]]
        /\ UNCHANGED st
     \/ Threw(i, "readLocal", "StorageError")
  /\ UNCHANGED <<ui, effAddr, nInv, localStore, remote, rwVars, profVars>>

\* SyncValue as an increment of the remote balance instead of an overwrite
SyncValueAdds(r, old) == Num(old.v + r.localBalance.v)

\* what update({ token_balance: localBalance }) leaves in the profile row
SyncValue(r, old) == r.localBalance

\* Sync without the throw on syncError: the failure is seen and the
\* pipeline goes on to the re-read
SyncIgnoresError(i) ==
  /\ inv[i].pc = "sync"
  /\ \/ /\ remote' = SyncValue(inv[i], remote)
        /\ inv' = [inv EXCEPT ![i] = [Did(@, "sync") EXCEPT !.pc = "reread"]]
     \/ /\ inv' = [inv EXCEPT ![i] =
                     [Did(@, "sync") EXCEPT !.stopped = "sync", !.pc = "reread"]]
        /\ UNCHANGED remote
  /\ UNCHANGED <<st, ui, effAddr, nInv, localStore, rwVars, profVars>>

\* await update({ token_balance: localBalance }); if (syncError) throw
Sync(i) ==
  /\ inv[i].pc = "sync"
  /\ \/ /\ remote' = SyncValue(inv[i], remote)
        /\ inv' = Clobber([inv EXCEPT ![i] = [Did(@, "sync") EXCEPT !.pc = "reread"]], i)
        /\ UNCHANGED st
     \/ /\ Threw(i, "sync", "RemoteStoreError")
        /\ UNCHANGED remote
  /\ UNCHANGED <<ui, effAddr, nInv, localStore, rwVars, profVars>>

\* NothingToClaim without the balance <= 0 test
NothingToClaimFalsyOnly(balance) == Falsy(balance)

\* if (!balance || balance <= 0)
NothingToClaim(balance) == Falsy(balance) \/ LeZero(balance)

\* MintAmount taken from the local balance read in step 2
MintAmountLocal(r, balance) == NumberToString(r.localBalance)

\* mintTokensToUser(walletAddress, balance.toString()): the amount argument
MintAmount(r, balance) == NumberToString(balance)

\* await select('token_balance').single(); if (error) throw; then the
\* balance and chain checks and the call of mintTokensToUser
Reread(i) ==
  /\ inv[i].pc = "reread"
  /\ \/ /\ NothingToClaim(remote)
        /\ inv' = [inv EXCEPT ![i] =
                     [Returned(@, "reread", "balance", MsgNoBalance)
                        EXCEPT !.balance = remote]]
        /\ st' = [st EXCEPT !.claiming = FALSE]
     \/ /\ ~NothingToClaim(remote)
        /\ IF inv[i].chain # "Base"
           THEN /\ inv' = [inv EXCEPT ![i] =
                             [Returned(@, "reread", "chain", MsgChain)
                                EXCEPT !.balance = remote]]
                /\ st' = [st EXCEPT !.claiming = FALSE]
           ELSE /\ inv' = [inv EXCEPT ![i] =
                             [Did(@, "reread") EXCEPT
                                !.balance = remote, !.pc = "mint",
                                !.mintArg = MintAmount(inv[i], remote)]]
                /\ UNCHANGED st
     \/ Threw(i, "reread", "RemoteStoreError")
  /\ UNCHANGED <<ui, effAddr, nInv, localStore, remote, rwVars, profVars>>

\* Mint whose rejection is reported but does not stop the reset of the
\* balances
MintFailureStillResets(i) ==
  /\ inv[i].pc = "mint"
  /\ \/ inv' = [inv EXCEPT ![i] =
                  [Did(@, "mint") EXCEPT !.minted = TRUE, !.pc = "zeroRemote"]]
     \/ inv' = [inv EXCEPT ![i] =
                  [Did(@, "mint") EXCEPT !.stopped = "mint", !.out = "MintError",
                                         !.pc = "zeroRemote"]]
  /\ UNCHANGED <<st, ui, effAddr, nInv, localStore, remote, rwVars, profVars>>

\* await contract.mint(...); await tx.wait(): confirmed, or rejected
Mint(i) ==
  /\ inv[i].pc = "mint"
  /\ \/ /\ inv' = [inv EXCEPT ![i] =
                     [Did(@, "mint") EXCEPT !.minted = TRUE, !.pc = "zeroRemote"]]
        /\ UNCHANGED st
     \/ \E msg \in {"MintError", ""} : Threw(i, "mint", msg)
  /\ UNCHANGED <<ui, effAddr, nInv, localStore, remote, rwVars, profVars>>

\* ZeroRemote without the throw on updateError: the local balance is reset
\* although the remote one was not
ZeroRemoteIgnoresError(i) ==
  /\ inv[i].pc = "zeroRemote"
  /\ \/ /\ remote' = Num(0)
        /\ inv' = [inv EXCEPT ![i] = [Did(@, "zeroRemote") EXCEPT !.pc = "zeroLocal"]]
     \/ /\ inv' = [inv EXCEPT ![i] =
                     [Did(@, "zeroRemote") EXCEPT !.stopped = "zeroRemote",
                                                  !.pc = "zeroLocal"]]
        /\ UNCHANGED remote
  /\ UNCHANGED <<st, ui, effAddr, nInv, localStore, rwVars, profVars>>

\* await update({ token_balance: 0 }); if (updateError) throw updateError
ZeroRemote(i) ==
  /\ inv[i].pc = "zeroRemote"
  /\ \/ /\ remote' = Num(0)
        /\ inv' = Clobber([inv EXCEPT ![i] = [Did(@, "zeroRemote") EXCEPT !.pc = "zeroLocal"]], i)
        /\ UNCHANGED st
     \/ /\ Threw(i, "zeroRemote", "RemoteStoreError")
        /\ UNCHANGED remote
  /\ UNCHANGED <<ui, effAddr, nInv, localStore, rwVars, profVars>>

\* await AsyncStorage.setItem('captur_token_balance', '0')
ZeroLocal(i) ==
  /\ inv[i].pc = "zeroLocal"
  /\ \/ /\ localStore' = Str(<<"0">>)
        /\ inv' = [inv EXCEPT ![i] = [Did(@, "zeroLocal") EXCEPT !.pc = "success"]]
        /\ UNCHANGED st
     \/ /\ Threw(i, "zeroLocal", "StorageError")
        /\ UNCHANGED localStore
  /\ UNCHANGED <<ui, effAddr, nInv, remote, rwVars, profVars>>

\* setSuccess('Tokens claimed and balance reset!'); finally { setClaiming(false) }
ClaimSuccess(i) ==
  /\ inv[i].pc = "success"
  /\ inv' = [inv EXCEPT ![i] = [Ended(@) EXCEPT !.out = MsgSuccess]]
  /\ st' = [st EXCEPT !.claiming = FALSE]
  /\ UNCHANGED <<ui, effAddr, nInv, localStore, remote, rwVars, profVars>>

Next ==
  \/ \E a \in Addresses : SetWalletAddress(a)
  \/ Render
  \/ AddressEffect
  \/ PressClaim
  \/ \E i \in 1..MaxInv : GetUser(i)
  \/ \E i \in 1..MaxInv : ReadLocal(i)
  \/ \E i \in 1..MaxInv : Sync(i)
  \/ \E i \in 1..MaxInv : Reread(i)
  \/ \E i \in 1..MaxInv : Mint(i)
  \/ \E i \in 1..MaxInv : ZeroRemote(i)
  \/ \E i \in 1..MaxInv : ZeroLocal(i)
  \/ \E i \in 1..MaxInv : ClaimSuccess(i)

Spec == Init /\ [][Next]_vars

---------------------------------------------------------------------------
(* Properties of the claim pipeline                                        *)

Invs == 1..MaxInv
Has(i, step) == step \in Range(inv[i].trace)
InFlight(i) == inv[i].pc \notin {"idle", "done"}
Order ==
  <<"getUser", "readLocal", "sync", "reread", "mint", "zeroRemote", "zeroLocal">>
OrderNoSync ==
  <<"getUser", "readLocal", "reread", "mint", "zeroRemote", "zeroLocal">>
IsPrefix(t, u) == Len(t) <= Len(u) /\ t = SubSeq(u, 1, Len(t))
InOrder(t) == IsPrefix(t, Order) \/ IsPrefix(t, OrderNoSync)
Pos(t, step) == CHOOSE k \in 1..Len(t) : t[k] = step
Count(t, step) == Cardinality({k \in 1..Len(t) : t[k] = step})
Zero == Num(0)
ZeroStr == Str(<<"0">>)

\* C1: whenever a claim invocation shows the success confirmation, it made
\* and had confirmed exactly one mint call, both of its zero-writes
\* succeeded, and at that moment the remote balance and the persisted local
\* balance are both exactly 0.
C1_SuccessMeansBothBalancesZero ==
  [][\A i \in Invs :
       (inv[i].pc = "success" /\ inv'[i].out = MsgSuccess) =>
         /\ Count(inv[i].trace, "mint") = 1
         /\ inv[i].minted
         /\ Has(i, "zeroRemote") /\ Has(i, "zeroLocal")
         /\ remote' = Zero
         /\ localStore' = ZeroStr]_vars

\* C2: the amount passed to mint is the decimal string of the balance the
\* re-read of the same invocation returned; when the local balance read in
\* step 2 was > 0 and nobody else wrote the remote balance between the sync
\* write and the re-read, that amount is the local balance read in step 2.
C2_MintAmountIsRereadBalance ==
  \A i \in Invs :
    /\ inv[i].mintArg # Null =>
         /\ Has(i, "reread")
         /\ inv[i].mintArg = NumberToString(inv[i].balance)
         /\ ParseFloat(inv[i].mintArg.s) = inv[i].balance
    /\ (inv[i].pc \in {"mint", "zeroRemote", "zeroLocal", "success"}
        /\ GtZero(inv[i].localBalance) /\ ~inv[i].dirty) =>
         /\ inv[i].mintArg # Null
         /\ ParseFloat(inv[i].mintArg.s) = inv[i].localBalance

C2_Witness ==
  \E i \in Invs :
    /\ inv[i].pc = "mint"
    /\ GtZero(inv[i].localBalance) /\ ~inv[i].dirty
    /\ inv[i].mintArg = Str(<<"1", "2", ".", "3", "4">>)

\* C3: at most one claim invocation is in flight at a time, so at most one
\* mint call is pending at any moment.
C3_AtMostOneClaimInFlight ==
  /\ Cardinality({i \in Invs : InFlight(i)}) <= 1
  /\ Cardinality({i \in Invs : inv[i].pc = "mint"}) <= 1

\* C4: when the re-read returns a balance that is 0, absent or negative, the
\* invocation ends with "No balance to claim.": no mint call, no zero-write
\* of the remote or the local balance, no success confirmation.
C4_NothingToClaimStops ==
  \A i \in Invs :
    (/\ Has(i, "reread") /\ inv[i].stopped # "reread"
     /\ \/ inv[i].balance.k = "null"
        \/ inv[i].balance.k = "num" /\ inv[i].balance.v <= 0) =>
      /\ inv[i].pc = "done"
      /\ inv[i].stopped = "balance"
      /\ inv[i].out = MsgNoBalance
      /\ inv[i].mintArg = Null /\ ~inv[i].minted
      /\ ~Has(i, "mint") /\ ~Has(i, "zeroRemote") /\ ~Has(i, "zeroLocal")

C4_Witness ==
  \E i \in Invs : inv[i].stopped = "balance" /\ inv[i].balance = Zero

\* C5: a claim runs only with a wallet address that passes
\* validateWalletAddress, and so does every mint call, whatever the sequence
\* of address edits.
C5_ClaimOnlyWithValidAddress ==
  \A i \in Invs : InFlight(i) => validateWalletAddress(inv[i].addr)

\* C6: the steps of one invocation happen in the order getUser, readLocal,
\* sync (only if local > 0), reread, mint, zeroRemote, zeroLocal, each once
\* and each after the previous one succeeded; after a step fails the
\* invocation carries out no further step.
C6_StepsInOrderAndShortCircuit ==
  \A i \in Invs :
    /\ InOrder(inv[i].trace)
    /\ inv[i].pc \in Range(Order) => InOrder(Append(inv[i].trace, inv[i].pc))
    /\ inv[i].pc = "success" => inv[i].trace \in {Order, OrderNoSync}
    /\ inv[i].out = MsgSuccess =>
         inv[i].trace \in {Order, OrderNoSync} /\ inv[i].stopped = "none"
    /\ inv[i].stopped # "none" =>
         /\ inv[i].pc = "done"
         /\ inv[i].out \notin {NoMsg, MsgSuccess}
         /\ inv[i].trace[Len(inv[i].trace)] =
              (IF inv[i].stopped \in {"balance", "chain"}
               THEN "reread" ELSE inv[i].stopped)
    /\ (InFlight(i) /\ Has(i, "readLocal")) =>
         ((Has(i, "sync") \/ inv[i].pc = "sync") <=> GtZero(inv[i].localBalance))

C6_Witness ==
  \E i, j \in Invs :
    /\ inv[i].trace = Order /\ inv[i].out = MsgSuccess
    /\ inv[j].stopped = "sync"

\* C7: when the mint call fails, an error message is shown, no zero-write
\* is made, the failing step changes neither the persisted local balance nor
\* the remote balance (the sync write of step 2 is not rolled back).
C7_MintFailureLeavesBalances ==
  /\ [](\A i \in Invs :
          inv[i].stopped = "mint" =>
            /\ inv[i].pc = "done"
            /\ ~inv[i].minted
            /\ inv[i].out \in {"MintError", MsgFallback}
            /\ ~Has(i, "zeroRemote") /\ ~Has(i, "zeroLocal")
            /\ Count(inv[i].trace, "sync") <= 1)
  /\ [][\A i \in Invs :
          (inv[i].pc = "mint" /\ inv'[i].stopped = "mint") =>
            remote' = remote /\ localStore' = localStore]_vars

C7_Witness ==
  \E i \in Invs :
    /\ inv[i].stopped = "mint" /\ Has(i, "sync")
    /\ remote = Num(1234) /\ localStore = Str(<<"1", "2", ".", "3", "4">>)

\* C8: a balance is written to 0 only after the mint of the same invocation
\* was confirmed, the remote zero-write comes before the local one, and when
\* the remote zero-write fails the local balance is not written and the claim
\* reports the failure.
C8_ZeroWritesOnlyAfterMint ==
  \A i \in Invs :
    /\ Has(i, "zeroRemote") =>
         /\ inv[i].minted /\ Has(i, "mint")
         /\ Pos(inv[i].trace, "mint") < Pos(inv[i].trace, "zeroRemote")
    /\ Has(i, "zeroLocal") =>
         /\ Has(i, "zeroRemote")
         /\ Pos(inv[i].trace, "zeroRemote") < Pos(inv[i].trace, "zeroLocal")
         /\ inv[i].stopped # "zeroRemote"
    /\ inv[i].stopped = "zeroRemote" =>
         /\ inv[i].pc = "done"
         /\ ~Has(i, "zeroLocal")
         /\ inv[i].out = "RemoteStoreError"

C8_Witness ==
  \E i \in Invs :
    /\ inv[i].stopped = "zeroRemote" /\ inv[i].minted
    /\ localStore = Str(<<"1", "2", ".", "3", "4">>)

\* C9: when no authenticated user is resolved, the claim fails with "No user
\* found": nothing is read from or written to the local store or the remote
\* profile, no mint call is made, and both balances are unchanged.
C9_NoUserStopsAtOnce ==
  /\ [](\A i \in Invs :
          inv[i].user = "none" =>
            /\ inv[i].pc = "done"
            /\ inv[i].stopped = "getUser"
            /\ inv[i].out = MsgNoUser
            /\ inv[i].trace = <<"getUser">>
            /\ inv[i].mintArg = Null /\ ~inv[i].minted)
  /\ [][\A i \in Invs :
          (inv[i].pc = "getUser" /\ inv'[i].user = "none") =>
            remote' = remote /\ localStore' = localStore]_vars

C9_Witness ==
  \E i \in Invs : inv[i].user = "none" /\ inv[i].pc = "done"

\* C10: in step 2, a persisted local balance L > 0 replaces the remote
\* balance by exactly L whatever it was (when the write succeeds); with L 0
\* or absent no sync write is issued and step 2 leaves the remote balance.
C10_SyncOverwritesRemote ==
  /\ [](\A i \in Invs :
          (InFlight(i) /\ Has(i, "readLocal")) =>
            ((Has(i, "sync") \/ inv[i].pc = "sync") <=> GtZero(inv[i].localBalance)))
  /\ [][\A i \in Invs :
          /\ (inv[i].pc = "sync" /\ inv'[i].pc = "reread") =>
               remote' = inv[i].localBalance
          /\ (inv[i].pc = "readLocal" /\ inv'[i].pc = "sync") =>
               /\ GtZero(LocalBalanceOf(localStore))
               /\ inv'[i].localBalance = LocalBalanceOf(localStore)
               /\ remote' = remote
          /\ (inv[i].pc = "readLocal" /\ inv'[i].pc = "reread") =>
               /\ ~GtZero(LocalBalanceOf(localStore))
               /\ remote' = remote]_vars

C10_Witness ==
  \E i \in Invs :
    /\ inv[i].pc = "reread" /\ Has(i, "sync") /\ ~inv[i].dirty
    /\ inv[i].localBalance = Num(1234) /\ remote = Num(1234)

---------------------------------------------------------------------------
(* The Rewards screen: focus, the two effects, the accumulation timer      *)
(*                                                                         *)
(* rs is the hook state, deps the dependencies the effects last ran with   *)
(* (the values of the last committed render).  timers is the set of active *)
(* interval timers, iref is intervalRef.current (0 for null).              *)
(* flagStore is the stored flag ("null" when absent), pendingSave a flag   *)
(* write that was issued and has not completed.  A draw of Math.random is  *)
(* counted in thousandths of a token.  hist counts the ticks and their     *)
(* writes and remembers whether the user's last toggle was to false        *)
(* (userOff) and whether the running timer was started by a re-run of the  *)
(* effects and has not ticked yet (resumed).                               *)

\* Math.random() * (0.1 - 0.01) + 0.01, in thousandths: a sample of [10, 100)
Draws == {14, 99}

\* an updater that takes the increment off the balance
RoundedSumTakesOff(prev, d) ==
  IF prev.k = "num" THEN Num((prev.v * 10 - d + 5) \div 10) ELSE NaN

\* Math.round((prev + increment) * 100) / 100 with floor rounding instead
RoundedSumFloor(prev, d) ==
  IF prev.k = "num" THEN Num((prev.v * 10 + d) \div 10) ELSE NaN

\* Math.round((prev + increment) * 100) / 100: halves round up
RoundedSum(prev, d) ==
  IF prev.k = "num" THEN Num((prev.v * 10 + d + 5) \div 10) ELSE NaN

\* Number.prototype.toString of a balance that may be NaN
BalanceToString(x) ==
  IF x.k = "nan" THEN Str(<<"N", "a", "N">>) ELSE NumberToString(x)

\* Boolean.prototype.toString
BoolToString(b) == IF b THEN "true" ELSE "false"

\* clearInterval that leaves the timer running
ClearIntervalKeeps(ts, ref) == ts

\* clearInterval(intervalRef.current)
ClearInterval(ts, ref) == ts \ {ref}

\* the ids setInterval can return: those of no active timer
FreshTimers(ts) == {t \in 1..MaxTimers : t \notin ts}

\* a render is due: the dependencies of the effects have changed since
\* they last ran, or they have never run
EffectsPending ==
  \/ ~deps.ran
  \/ deps.isFocused # focus
  \/ deps.enabled # rs.enabled

\* useState(true), useState(0): the hook state of a new component instance
FreshState == [enabled |-> TRUE, captBalance |-> Num(0)]

\* no effect has run yet
FreshDeps == [ran |-> FALSE, enabled |-> FALSE, isFocused |-> FALSE]

\* the view is opened: a new component instance, focused
Mount ==
  /\ ~mounted
  /\ mounted' = TRUE
  /\ focus' = TRUE
  /\ rs' = FreshState
  /\ deps' = FreshDeps
  /\ iref' = 0
  /\ UNCHANGED <<timers, flagStore, pendingSave, loads, hist, localStore,
                 claimVars, profVars>>

\* the view is torn down: both effect cleanups run and the component
\* instance, with its hook state, is discarded
Unmount ==
  /\ mounted
  /\ mounted' = FALSE
  /\ focus' = FALSE
  /\ timers' = ClearInterval(timers, iref)
  /\ iref' = 0
  /\ loads' = [x \in LoadStates |->
                 IF x[2] THEN 0 ELSE loads[<<x[1], TRUE>>] + loads[x]]
  /\ rs' = FreshState
  /\ deps' = FreshDeps
  /\ hist' = [hist EXCEPT !.resumed = FALSE]
  /\ UNCHANGED <<flagStore, pendingSave, localStore, claimVars, profVars>>

\* useIsFocused changes
FocusChange ==
  /\ mounted
  /\ focus' = ~focus
  /\ UNCHANGED <<mounted, rs, deps, timers, iref, flagStore, pendingSave,
                 loads, hist, localStore, claimVars, profVars>>

\* toggleLocationSharing
Toggle ==
  /\ mounted
  /\ focus
  /\ rs' = [rs EXCEPT !.enabled = ~@]
  /\ hist' = [hist EXCEPT !.userOff = rs.enabled]
  /\ UNCHANGED <<focus, mounted, deps, timers, iref, flagStore,
                 pendingSave, loads, localStore, claimVars, profVars>>

\* the smallest member of a non-empty set of numbers
Least(S) == CHOOSE t \in S : \A u \in S : t <= u

\* the number of loadSavedState calls running
Running(b) ==
  b[<<"flag", TRUE>>] + b[<<"flag", FALSE>>] + b[<<"saveDefault", TRUE>>]
  + b[<<"saveDefault", FALSE>>] + b[<<"balance", TRUE>>]
  + b[<<"balance", FALSE>>]

\* one more call at x, one call fewer at x, one call moved from x to y
Started(b, x) == [b EXCEPT ![x] = @ + 1]
Finished(b, x) == [b EXCEPT ![x] = @ - 1]
Moved(b, x, y) == Started(Finished(b, x), y)

\* React commits a render of the current state and runs the effects whose
\* dependencies changed: the cleanups of the previous run first, then the
\* body of the focus effect (which starts loadSavedState when focused),
\* then the body of the location-sharing effect (which issues the flag
\* write, clears the interval and starts a new one when enabled and
\* focused).  A flag write still pending is completed, or fails, before the
\* new one is issued.
REffects ==
  /\ mounted
  /\ EffectsPending
  /\ LET focusEffect == ~deps.ran \/ deps.isFocused # focus
         cleaned == IF deps.ran THEN ClearInterval(timers, iref) ELSE timers
         ref == IF deps.ran THEN 0 ELSE iref
         cleared == IF ref # 0 THEN ClearInterval(cleaned, ref) ELSE cleaned
         fresh == FreshTimers(cleared)
     IN /\ IF focusEffect /\ focus
              THEN /\ Running(loads) < MaxLoads
                   /\ loads' = Started(loads, <<"flag", TRUE>>)
              ELSE UNCHANGED loads
        /\ \E ok \in BOOLEAN :
             flagStore' = IF pendingSave # "none" /\ ok
                            THEN pendingSave ELSE flagStore
        /\ pendingSave' = BoolToString(rs.enabled)
        /\ IF rs.enabled /\ focus
              THEN /\ fresh # {}
                   /\ timers' = cleared \cup {Least(fresh)}
                   /\ iref' = Least(fresh)
              ELSE /\ timers' = cleared
                   /\ iref' = 0
  /\ deps' = [ran |-> TRUE, enabled |-> rs.enabled, isFocused |-> focus]
  /\ hist' = [hist EXCEPT !.resumed = deps.ran /\ rs.enabled /\ focus]
  /\ UNCHANGED <<focus, mounted, rs, localStore, claimVars, profVars>>

\* the flag write of saveLocationSharingState completes or fails (logged)
SaveFlag ==
  /\ pendingSave # "none"
  /\ pendingSave' = "none"
  /\ \/ flagStore' = pendingSave
     \/ UNCHANGED flagStore
  /\ UNCHANGED <<focus, mounted, rs, deps, timers, iref, loads, hist,
                 localStore, claimVars, profVars>>

\* a state setter called by a load: nothing happens after unmount
SetBy(live, next) == IF live /\ mounted THEN next ELSE rs

\* loadSavedState: the read of the stored flag
LoadFlag(live) ==
  /\ loads[<<"flag", live>>] > 0
  /\ \/ /\ flagStore # "null"
        /\ rs' = SetBy(live, [rs EXCEPT !.enabled = (flagStore = "true")])
        /\ loads' = Moved(loads, <<"flag", live>>, <<"balance", live>>)
     \/ /\ flagStore = "null"
        /\ rs' = SetBy(live, [rs EXCEPT !.enabled = TRUE])
        /\ loads' = Moved(loads, <<"flag", live>>, <<"saveDefault", live>>)
     \/ /\ rs' = SetBy(live, [rs EXCEPT !.captBalance = Num(0)])
        /\ loads' = Finished(loads, <<"flag", live>>)
  /\ UNCHANGED <<focus, mounted, deps, timers, iref, flagStore,
                 pendingSave, hist, localStore, claimVars, profVars>>

\* loadSavedState: the write of the default flag when none was stored
LoadSaveDefault(live) ==
  /\ loads[<<"saveDefault", live>>] > 0
  /\ \/ /\ flagStore' = "true"
        /\ loads' = Moved(loads, <<"saveDefault", live>>, <<"balance", live>>)
        /\ UNCHANGED rs
     \/ /\ rs' = SetBy(live, [rs EXCEPT !.captBalance = Num(0)])
        /\ loads' = Finished(loads, <<"saveDefault", live>>)
        /\ UNCHANGED flagStore
  /\ UNCHANGED <<focus, mounted, deps, timers, iref, pendingSave, hist,
                 localStore, claimVars, profVars>>

\* what loadSavedState makes of the stored balance
LoadedBalance(stored) ==
  IF stored = Null THEN Num(0) ELSE ParseFloat(stored.s)

\* loadSavedState: the read of the stored balance
LoadBalance(live) ==
  /\ loads[<<"balance", live>>] > 0
  /\ \/ rs' = SetBy(live, [rs EXCEPT !.captBalance = LoadedBalance(localStore)])
     \/ rs' = SetBy(live, [rs EXCEPT !.captBalance = Num(0)])
  /\ loads' = Finished(loads, <<"balance", live>>)
  /\ UNCHANGED <<focus, mounted, deps, timers, iref, flagStore,
                 pendingSave, hist, localStore, claimVars, profVars>>

\* a tick whose failed write also stops the timer
TickStopsOnFailure(t, d) ==
  /\ t \in timers
  /\ hist.ticks < MaxTicks
  /\ rs' = [rs EXCEPT !.captBalance = RoundedSum(@, d)]
  /\ \/ /\ localStore' = BalanceToString(rs'.captBalance)
        /\ hist' = [hist EXCEPT !.ticks = @ + 1, !.tickWrites = @ + 1,
                                !.resumed = FALSE]
        /\ UNCHANGED <<timers, iref>>
     \/ /\ UNCHANGED localStore
        /\ hist' = [hist EXCEPT !.ticks = @ + 1, !.tickWrites = @ + 1,
                                !.resumed = FALSE]
        /\ timers' = {}
        /\ iref' = 0
  /\ UNCHANGED <<focus, mounted, deps, flagStore, pendingSave, loads,
                 claimVars, profVars>>

\* the interval callback of timer t with draw d: the updater replaces the
\* balance and issues one write of it, which succeeds or fails (logged)
Tick(t, d) ==
  /\ t \in timers
  /\ hist.ticks < MaxTicks
  /\ rs' = [rs EXCEPT !.captBalance = RoundedSum(@, d)]
  /\ \/ /\ localStore' = BalanceToString(rs'.captBalance)
        /\ hist' = [hist EXCEPT !.ticks = @ + 1, !.tickWrites = @ + 1,
                                !.resumed = FALSE]
     \/ /\ UNCHANGED localStore
        /\ hist' = [hist EXCEPT !.ticks = @ + 1, !.tickWrites = @ + 1,
                                !.resumed = FALSE]
  /\ UNCHANGED <<focus, mounted, deps, timers, iref, flagStore,
                 pendingSave, loads, claimVars, profVars>>

NextR ==
  \/ Mount
  \/ Unmount
  \/ FocusChange
  \/ Toggle
  \/ REffects
  \/ SaveFlag
  \/ \E live \in BOOLEAN : LoadFlag(live)
  \/ \E live \in BOOLEAN : LoadSaveDefault(live)
  \/ \E live \in BOOLEAN : LoadBalance(live)
  \/ \E t \in 1..MaxTimers, d \in Draws : Tick(t, d)

\* the stored flag at the start: never written, or left by an earlier session
FlagInit == {"null", "true", "false"}

\* the stored balance at the start of a Rewards session
LocalInitR == {Null, Str(DecimalChars(1234))}

\* the Rewards screen has just been opened; the profile screen is idle
InitR ==
  /\ InitClaim
  /\ ProfileIdle
  /\ localStore \in LocalInitR
  /\ remote = Null
  /\ RewardsFresh
  /\ mounted = TRUE
  /\ focus = TRUE
  /\ flagStore \in FlagInit

SpecR == InitR /\ [][NextR]_vars

---------------------------------------------------------------------------
(* Properties of the Rewards screen                                        *)

\* the step is a tick of the accumulation timer
TickStep == hist'.ticks = hist.ticks + 1

\* n hundredths is b hundredths plus d thousandths rounded to the nearest
\* hundredth, halves up
IsRound2(b, d, n) == 10 * n - 5 <= 10 * b + d /\ 10 * b + d < 10 * n + 5

C13_NoTickWhileToggledOff == [][hist.userOff => ~TickStep]_vars

\* C14: at most one accumulation timer is active, and it is the one
\* intervalRef holds, whatever mounts, focus changes, toggles and loads
\* came before
C14_AtMostOneTimer ==
  /\ Cardinality(timers) <= 1
  /\ timers \subseteq {iref}
  /\ iref # 0 => timers = {iref}

\* a timer runs after the view lost focus and regained it: the balance was
\* loaded by an earlier loadSavedState and the one started on regaining
\* focus is in flight
C14_Witness ==
  /\ timers # {}
  /\ focus
  /\ rs.captBalance = Num(1234)
  /\ loads[<<"flag", TRUE>>] = 1

\* C15: a timer is active only while the stored flag is true, the view is
\* focused and the view is mounted
C15_TimerOnlyWithStoredFlagAndFocus ==
  timers # {} => flagStore = "true" /\ focus /\ mounted

\* the local balance as both screens read it from storage
StoredBalance == IF localStore = Null THEN Num(0) ELSE ParseFloat(localStore.s)

\* C16: the first tick after accumulation resumes (the view regained focus
\* or the flag became true again) computes the new balance from the
\* balance stored at that moment, not from another in-memory value
C16_FirstTickFromStoredBalance ==
  [][TickStep /\ hist.resumed => rs.captBalance = StoredBalance]_vars

\* C17: every tick issues one write of the new balance; the write either
\* stores it or fails and stores nothing, and in both cases the timer stays
\* active and the in-memory balance has advanced
C17_TickWritesOnceAndSurvivesFailure ==
  [][TickStep =>
       /\ hist'.tickWrites = hist.tickWrites + 1
       /\ \/ localStore' = BalanceToString(rs'.captBalance)
          \/ localStore' = localStore
       /\ rs'.captBalance.v > rs.captBalance.v
       /\ timers' = timers
       /\ timers' # {}
       /\ iref' = iref]_vars

\* two ticks whose writes both failed: nothing was stored, the balance
\* advanced twice and the timer is still active
C17_Witness ==
  /\ hist.ticks = 2
  /\ hist.tickWrites = 2
  /\ localStore = Null
  /\ rs.captBalance.v >= 2
  /\ timers # {}

---------------------------------------------------------------------------
(* Both screens together: the Rewards view accumulates into the stored     *)
(* balance that the claim of the profile screen reads and zeroes.  Both    *)
(* components stay mounted; the profile screen is the one on top while the *)
(* Rewards view is out of focus.                                           *)

\* claim presses and ticks followed when both screens run together
AllInv == MaxInv - 1
AllTicks == MaxTicks - 1

NextAll ==
  \/ ~focus /\ SetWalletAddress(AddrValid)
  \/ Render
  \/ AddressEffect
  \/ ~focus /\ nInv < AllInv /\ PressClaim
  \/ \E i \in 1..MaxInv : GetUser(i)
  \/ \E i \in 1..MaxInv : ReadLocal(i)
  \/ \E i \in 1..MaxInv : Sync(i)
  \/ \E i \in 1..MaxInv : Reread(i)
  \/ \E i \in 1..MaxInv : Mint(i)
  \/ \E i \in 1..MaxInv : ZeroRemote(i)
  \/ \E i \in 1..MaxInv : ZeroLocal(i)
  \/ \E i \in 1..MaxInv : ClaimSuccess(i)
  \/ FocusChange
  \/ Toggle
  \/ REffects
  \/ SaveFlag
  \/ \E live \in BOOLEAN : LoadFlag(live)
  \/ \E live \in BOOLEAN : LoadSaveDefault(live)
  \/ \E live \in BOOLEAN : LoadBalance(live)
  \/ hist.ticks < AllTicks /\ \E t \in 1..MaxTimers, d \in Draws : Tick(t, d)

\* the balances C18 starts from: nothing accumulated locally, a remote
\* balance that is zero or positive
LocalInitAll == {Str(<<"0">>)}
RemoteInitAll == {Num(0), Num(500)}

\* the Rewards view has just been opened over an idle profile screen
InitAll ==
  /\ InitClaim
  /\ ProfileIdle
  /\ localStore \in LocalInitAll
  /\ remote \in RemoteInitAll
  /\ RewardsFresh
  /\ mounted = TRUE
  /\ focus = TRUE
  /\ flagStore \in FlagInit

SpecAll == InitAll /\ [][NextAll]_vars

---------------------------------------------------------------------------
(* Properties of the two screens together                                  *)

\* a number that is zero or more
NonNeg(x) == x.k = "num" /\ x.v >= 0

\* C18: starting from a local balance of 0 and a remote balance >= 0, the
\* local balance (stored and in memory) and the remote balance are >= 0 in
\* every reachable state, under ticks, toggles, focus changes and claims
\* that succeed or fail at any step
C18_BalancesNeverNegative ==
  /\ NonNeg(StoredBalance)
  /\ NonNeg(rs.captBalance)
  /\ NonNeg(remote)

\* after a toggle to false and a focus loss, a claim of the 0.01 that one
\* tick accumulated has succeeded and both balances are back at zero
C18_Witness ==
  /\ hist.ticks >= 1
  /\ hist.userOff
  /\ ~focus
  /\ remote = Num(0)
  /\ localStore = Str(<<"0">>)
  /\ \E i \in 1..MaxInv :
       /\ inv[i].pc = "done"
       /\ inv[i].out = MsgSuccess
       /\ inv[i].minted
       /\ inv[i].mintArg = Str(<<"0", ".", "0", "1">>)

---------------------------------------------------------------------------
(* The profile form and its save (updateProfile)                           *)
(*                                                                         *)
(* pst is the hook state of the form, pui what the last committed render   *)
(* closed over (the Update Profile button and updateProfile see pui).      *)
(* sv[i] is the i-th call of updateProfile: where it is, the values it     *)
(* closed over, the remote operations it has issued (trace) and the        *)
(* messages it has set.  prow is the user's row of the profiles table.     *)

MsgUsernameRequired == "Username is required"
MsgProfileUpdated == "Profile updated successfully!"
MsgEmailVerify == "Profile updated but email change requires verification"
MsgCheckEmail ==
  "Profile updated! Please check your email to confirm your new email address."

\* characters String.prototype.trim removes (a sample)
WhiteSpace == {" ", "\t"}

\* String.prototype.trim
RECURSIVE TrimStart(_)
TrimStart(chars) ==
  IF chars # <<>> /\ Head(chars) \in WhiteSpace
    THEN TrimStart(Tail(chars))
    ELSE chars

RECURSIVE TrimEnd(_)
TrimEnd(chars) ==
  IF chars # <<>> /\ chars[Len(chars)] \in WhiteSpace
    THEN TrimEnd(SubSeq(chars, 1, Len(chars) - 1))
    ELSE chars

Trim(chars) == TrimEnd(TrimStart(chars))

\* !username.trim() without the trim
BlankNoTrim(username) == username = <<>>

\* !username.trim()
Blank(username) == Trim(username) = <<>>

\* display names typed into the form
Usernames == {<<" ", "\t">>, <<" ", "b", "o", "b">>}

\* the email of the authenticated identity, and the emails typed into the form
AuthEmail == "a@x.io"
Emails == {AuthEmail, "b@x.io"}

\* onChangeText of the username field
SetUsername(u) ==
  /\ pst.username # u
  /\ pst' = [pst EXCEPT !.username = u]
  /\ UNCHANGED <<pui, sv, nSv, prow, psh, claimVars, localStore, rwVars>>

\* onChangeText of the email field
SetEmail(e) ==
  /\ pst.email # e
  /\ pst' = [pst EXCEPT !.email = e]
  /\ UNCHANGED <<pui, sv, nSv, prow, psh, claimVars, localStore, rwVars>>

\* React commits a render of the form
PRender ==
  /\ pui # pst
  /\ pui' = pst
  /\ UNCHANGED <<pst, sv, nSv, prow, psh, claimVars, localStore, rwVars>>

\* save i has issued one more remote operation
Issued(r, op) == [r EXCEPT !.trace = Append(@, op)]

\* save i ends: finally { setUpdating(false) }
SaveEnds(i, r, at) ==
  /\ sv' = [sv EXCEPT ![i] = [r EXCEPT !.pc = "done", !.stopped = at]]
  /\ pst' = [pst EXCEPT !.updating = FALSE]

\* onPress of the Update Profile button (disabled while updating): the
\* synchronous start of updateProfile, called with the values of the last
\* render.  A blank name ends it at once (setUpdating(true), setError,
\* return, finally setUpdating(false)).
PressSave ==
  /\ ~pui.updating
  /\ nSv < MaxSaves
  /\ nSv' = nSv + 1
  /\ LET r == [IdleSave EXCEPT !.username = pui.username,
                               !.email = pui.email]
     IN \/ /\ Blank(r.username)
           /\ SaveEnds(nSv', [r EXCEPT !.error = MsgUsernameRequired],
                       "validate")
        \/ /\ ~Blank(r.username)
           /\ sv' = [sv EXCEPT ![nSv'] = [r EXCEPT !.pc = "getUser"]]
           /\ pst' = [pst EXCEPT !.updating = TRUE]
  /\ UNCHANGED <<pui, prow, psh, claimVars, localStore, rwVars>>

\* supabase.auth.getUser(): the identity, or none ("No user found")
SaveGetUser(i) ==
  /\ sv[i].pc = "getUser"
  /\ \/ /\ sv' = [sv EXCEPT ![i] =
                    [Issued(@, "getUser") EXCEPT !.pc = "upsert",
                                                 !.authEmail = AuthEmail]]
        /\ UNCHANGED pst
     \/ SaveEnds(i, [Issued(sv[i], "getUser") EXCEPT !.error = MsgNoUser],
                 "getUser")
  /\ UNCHANGED <<pui, nSv, prow, psh, claimVars, localStore, rwVars>>

\* the row the upsert of save r writes
Upserted(r) == [exists |-> TRUE, username |-> r.username, email |-> r.email]

\* after a successful upsert: the email-change request is due when the email
\* field differs from the email of the identity
EmailChangeDue(r) == r.email # r.authEmail

\* an upsert whose error does not stop the save
SaveUpsertIgnoresError(i) ==
  /\ sv[i].pc = "upsert"
  /\ LET r == Issued(sv[i], "upsert")
     IN \/ /\ prow' = Upserted(r)
           /\ IF EmailChangeDue(r)
                THEN /\ sv' = [sv EXCEPT ![i] =
                                 [r EXCEPT !.pc = "emailChange",
                                           !.success = MsgProfileUpdated]]
                     /\ UNCHANGED pst
                ELSE SaveEnds(i, [r EXCEPT !.success = MsgProfileUpdated],
                              "none")
        \/ /\ UNCHANGED prow
           /\ IF EmailChangeDue(r)
                THEN /\ sv' = [sv EXCEPT ![i] =
                                 [r EXCEPT !.pc = "emailChange",
                                           !.error = "UpsertError"]]
                     /\ UNCHANGED pst
                ELSE SaveEnds(i, [r EXCEPT !.error = "UpsertError"], "upsert")
  /\ UNCHANGED <<pui, nSv, psh, claimVars, localStore, rwVars>>

\* supabase.from('profiles').upsert(updates): on success setSuccess and, if
\* the email differs, go on to the email change; on error throw
SaveUpsert(i) ==
  /\ sv[i].pc = "upsert"
  /\ LET r == Issued(sv[i], "upsert")
     IN \/ /\ prow' = Upserted(r)
           /\ IF EmailChangeDue(r)
                THEN /\ sv' = [sv EXCEPT ![i] =
                                 [r EXCEPT !.pc = "emailChange",
                                           !.success = MsgProfileUpdated]]
                     /\ UNCHANGED pst
                ELSE SaveEnds(i, [r EXCEPT !.success = MsgProfileUpdated],
                              "none")
        \/ /\ UNCHANGED prow
           /\ SaveEnds(i, [r EXCEPT !.error = "UpsertError"], "upsert")
  /\ UNCHANGED <<pui, nSv, psh, claimVars, localStore, rwVars>>

\* supabase.auth.updateUser({ email }): accepted (setSuccess), answered with
\* an error (setError, the success message stays), or thrown (catch)
SaveEmailChange(i) ==
  /\ sv[i].pc = "emailChange"
  /\ LET r == Issued(sv[i], "emailChange")
     IN \/ SaveEnds(i, [r EXCEPT !.success = MsgCheckEmail], "none")
        \/ SaveEnds(i, [r EXCEPT !.error = MsgEmailVerify], "emailChange")
        \/ SaveEnds(i, [r EXCEPT !.error = "AuthError"], "emailChange")
  /\ UNCHANGED <<pui, nSv, prow, psh, claimVars, localStore, rwVars>>

NextP ==
  \/ \E u \in Usernames : SetUsername(u)
  \/ \E e \in Emails : SetEmail(e)
  \/ PRender
  \/ PressSave
  \/ \E i \in 1..MaxSaves : SaveGetUser(i)
  \/ \E i \in 1..MaxSaves : SaveUpsert(i)
  \/ \E i \in 1..MaxSaves : SaveEmailChange(i)

\* the profile screen has just been opened; no claim, no Rewards view
InitP ==
  /\ InitClaim
  /\ RewardsAway
  /\ ProfileIdle
  /\ localStore = Null
  /\ remote = Null

SpecP == InitP /\ [][NextP]_vars

---------------------------------------------------------------------------
(* Properties of the profile save                                          *)

Saves == 1..MaxSaves

\* the step is a press of Update Profile
SavePressed == nSv' = nSv + 1

\* C19: a save whose display name is empty or only whitespace ends at once
\* with the validation error: it issues no remote operation (no getUser, no
\* upsert, no email change), leaves the remote row as it is and leaves the
\* updating flag cleared
C19_BlankNameFailsBeforeAnyRemoteOp ==
  /\ [](\A i \in Saves :
          sv[i].pc # "idle" /\ Trim(sv[i].username) = <<>> =>
            /\ sv[i].pc = "done"
            /\ sv[i].stopped = "validate"
            /\ sv[i].error = MsgUsernameRequired
            /\ sv[i].success = NoMsg
            /\ sv[i].trace = <<>>)
  /\ [][SavePressed /\ Trim(pui.username) = <<>> =>
          /\ prow' = prow
          /\ pst'.updating = FALSE]_vars

\* a name of a space and a tab is refused while the row of an earlier save stands
C19_Witness ==
  /\ prow = [exists |-> TRUE, username |-> <<" ", "b", "o", "b">>,
             email |-> AuthEmail]
  /\ ~pst.updating
  /\ \E i \in Saves :
       /\ sv[i].pc = "done"
       /\ sv[i].username = <<" ", "\t">>
       /\ sv[i].stopped = "validate"

\* C20: the email-change request is issued only after the upsert of the
\* same save has succeeded and only if the email field differs from the
\* identity's email; a failed upsert issues none; the email-change step,
\* failed or not, leaves the row as the upsert wrote it and the save never
\* issues a second upsert
C20_EmailChangeOnlyAfterUpsert ==
  /\ [](\A i \in Saves :
          /\ Count(sv[i].trace, "upsert") <= 1
          /\ (sv[i].pc = "emailChange" \/ "emailChange" \in Range(sv[i].trace)) =>
               /\ IsPrefix(sv[i].trace, <<"getUser", "upsert", "emailChange">>)
               /\ sv[i].success # NoMsg
               /\ sv[i].email # sv[i].authEmail
               /\ sv[i].stopped # "upsert"
          /\ sv[i].stopped = "upsert" => sv[i].trace = <<"getUser", "upsert">>
          /\ (sv[i].pc = "done" /\ sv[i].stopped = "none"
                /\ sv[i].email = sv[i].authEmail) =>
               sv[i].trace = <<"getUser", "upsert">>)
  /\ [][\A i \in Saves :
          sv[i].pc = "emailChange" /\ sv'[i].pc = "done" => prow' = prow]_vars

\* the email change of a save failed and the row it upserted stands
C20_Witness ==
  \E i \in Saves :
    /\ sv[i].pc = "done"
    /\ sv[i].stopped = "emailChange"
    /\ sv[i].error = MsgEmailVerify
    /\ sv[i].success = MsgProfileUpdated
    /\ sv[i].trace = <<"getUser", "upsert", "emailChange">>
    /\ prow = Upserted(sv[i])

---------------------------------------------------------------------------
(* The address validator on typed input                                    *)

\* characters tried in an address: hexadecimal digits of both cases, letters
\* next to the hexadecimal range, the prefix letter in both cases, a space
TypedChars == {"f", "F", "g", "G", "x", "X", " "}

\* the positions of an address a character is tried at: the prefix, a middle
\* and the last hexadecimal digit
TypedPositions == {1, 2, 22, 42}

\* the lengths an address is cut to
TypedLengths == {0, 1, 2, 3, 41, 42}

\* what the user types into the wallet address field: a well-formed address
\* cut short, with one character replaced, or with one character more at
\* either end
TypedAddresses ==
  {SubSeq(AddrValid, 1, n) : n \in TypedLengths}
    \cup {[AddrValid EXCEPT ![i] = c] : i \in TypedPositions, c \in TypedChars}
    \cup {AddrValid \o <<c>> : c \in {"0", "g"}}
    \cup {<<c>> \o AddrValid : c \in {"0", " "}}
    \cup {<<"0", "x">> \o SubSeq(AddrValid, 2, 42)}

\* typing, rendering and the validation effect; no claim is pressed
NextV ==
  \/ \E a \in TypedAddresses : SetWalletAddress(a)
  \/ Render
  \/ AddressEffect

InitV ==
  /\ InitClaim
  /\ localStore = Null
  /\ remote = Null
  /\ RewardsAway
  /\ ProfileIdle

SpecV == InitV /\ [][NextV]_vars

\* the string is '0x' followed by exactly 40 hexadecimal digits
IsHexAddress(s) ==
  /\ Len(s) = 2 + 40
  /\ SubSeq(s, 1, 2) = <<"0", "x">>
  /\ Range(SubSeq(s, 3, Len(s))) \subseteq HexChars

\* C21: validateWalletAddress returns true exactly for '0x' followed by
\* exactly 40 characters of [0-9a-fA-F] and false for every other string
\* (the empty string, any other length, a non-hexadecimal character, another
\* prefix): the validity the effect stored is that of the address it ran on
C21_ValidatorAcceptsExactlyHexAddresses ==
  /\ st.isAddressValid = IsHexAddress(effAddr)
  /\ \A a \in TypedAddresses : validateWalletAddress(a) = IsHexAddress(a)

\* a mixed-case address is accepted while the field already holds it with one
\* more digit
C21_Witness ==
  /\ effAddr = AddrValid
  /\ st.isAddressValid
  /\ ui.isAddressValid
  /\ st.walletAddress = AddrValid \o <<"0">>

---------------------------------------------------------------------------
(* Minted against accrued: claims and accumulation on the shared balance   *)

\* the draw of every tick here, 0.099 in thousandths: a tick from a balance of
\* whole hundredths then adds exactly 0.10
DrawM == 99
TickGainM == 10

\* the remote balance the profile row starts with, in hundredths
InitialRemoteM == 500

\* no claim is running: every invocation is unused or has ended
NoClaimRunning == \A i \in 1..MaxInv : inv[i].pc \in {"idle", "done"}

\* the user works on the profile screen while Rewards is out of focus,
\* presses Claim only when no earlier claim is still running and leaves the
\* sharing toggle alone
NextM ==
  \/ ~focus /\ SetWalletAddress(AddrValid)
  \/ Render
  \/ AddressEffect
  \/ ~focus /\ NoClaimRunning /\ PressClaim
  \/ \E i \in 1..MaxInv : GetUser(i)
  \/ \E i \in 1..MaxInv : ReadLocal(i)
  \/ \E i \in 1..MaxInv : Sync(i)
  \/ \E i \in 1..MaxInv : Reread(i)
  \/ \E i \in 1..MaxInv : Mint(i)
  \/ \E i \in 1..MaxInv : ZeroRemote(i)
  \/ \E i \in 1..MaxInv : ZeroLocal(i)
  \/ \E i \in 1..MaxInv : ClaimSuccess(i)
  \/ FocusChange
  \/ REffects
  \/ SaveFlag
  \/ \E live \in BOOLEAN : LoadFlag(live)
  \/ \E live \in BOOLEAN : LoadSaveDefault(live)
  \/ \E live \in BOOLEAN : LoadBalance(live)
  \/ hist.ticks < AllTicks /\ \E t \in 1..MaxTimers : Tick(t, DrawM)

\* the Rewards view has just been opened with no sharing flag stored yet,
\* nothing accumulated locally and a positive remote balance
InitM ==
  /\ InitClaim
  /\ ProfileIdle
  /\ localStore = Str(<<"0">>)
  /\ remote = Num(InitialRemoteM)
  /\ RewardsFresh
  /\ mounted = TRUE
  /\ focus = TRUE
  /\ flagStore = "null"

SpecM == InitM /\ [][NextM]_vars

\* the amounts of the confirmed mint calls of invocations 1..n, in hundredths
RECURSIVE MintedUpTo(_)
MintedUpTo(n) ==
  IF n = 0 THEN 0
  ELSE MintedUpTo(n - 1)
         + (IF inv[n].minted THEN ParseFloat(inv[n].mintArg.s).v ELSE 0)

TotalMinted == MintedUpTo(MaxInv)

\* what the ticks have added, in hundredths
TotalAccrued == TickGainM * hist.ticks

\* C22: over any sequence of ticks, focus changes, toggles and claims, the
\* amounts passed to confirmed mint calls add up to no more than what the
\* ticks accrued plus the initial remote balance
C22_MintedWithinAccrued ==
  TotalMinted <= TotalAccrued + InitialRemoteM

---------------------------------------------------------------------------
(* The busy flag of the claim handler                                      *)

\* every awaited operation of a started claim returns or rejects: the step
\* that waits for it is taken
ClaimStepsFair ==
  \A i \in 1..MaxInv :
    /\ WF_vars(GetUser(i))
    /\ WF_vars(ReadLocal(i))
    /\ WF_vars(Sync(i))
    /\ WF_vars(Reread(i))
    /\ WF_vars(Mint(i))
    /\ WF_vars(ZeroRemote(i))
    /\ WF_vars(ZeroLocal(i))
    /\ WF_vars(ClaimSuccess(i))

SpecF == Init /\ [][Next]_vars /\ ClaimStepsFair

\* a started claim ends, and the step that ends it has cleared the flag
ClaimEndsWithFlagCleared ==
  \A i \in Invs : (inv[i].pc # "idle") ~> (inv[i].pc = "done" /\ ~st.claiming)

\* the flag is set while the mint of a claim is pending
FlagSetWhileMintPending ==
  \A i \in Invs : inv[i].pc = "mint" => st.claiming

\* C23: every started claim whose awaited operations return or reject ends
\* with the busy flag cleared (success, NothingToClaim, UnsupportedChain and
\* every thrown error), and the flag is never clear while the mint of a claim
\* is still pending
C23_BusyFlagClearedAtEndOnly ==
  ClaimEndsWithFlagCleared /\ []FlagSetWhileMintPending

---------------------------------------------------------------------------
(* The stored sharing flag when the user never toggles                     *)

\* the Rewards view is mounted, left, focused again and unmounted, its loads,
\* saves and ticks run, and toggleLocationSharing is never called
NextN ==
  \/ Mount
  \/ Unmount
  \/ FocusChange
  \/ REffects
  \/ SaveFlag
  \/ \E live \in BOOLEAN : LoadFlag(live)
  \/ \E live \in BOOLEAN : LoadSaveDefault(live)
  \/ \E live \in BOOLEAN : LoadBalance(live)
  \/ \E t \in 1..MaxTimers, d \in Draws : Tick(t, d)

\* the stored flag before the view is mounted: never written, or switched off
\* in an earlier session
FlagInitN == {"null", "false"}

\* the Rewards view is not mounted yet
InitN ==
  /\ InitClaim
  /\ ProfileIdle
  /\ localStore \in LocalInitR
  /\ remote = Null
  /\ RewardsFresh
  /\ mounted = FALSE
  /\ focus = FALSE
  /\ flagStore \in FlagInitN

SpecN == InitN /\ [][NextN]_vars

\* C24: the persisted flag changes only through a user toggle: with no toggle
\* at all, mounting and refocusing the view never replace a persisted 'false',
\* however the load of the flag and the effect that saves the in-memory flag
\* interleave
C24_StoredFalseKeptWithoutToggle ==
  [][flagStore = "false" => flagStore' = "false"]_vars

---------------------------------------------------------------------------
(* The sharing flag as the profile screen loads it                         *)

\* STORAGE_KEYS of Rewards.tsx and of EditProfile.tsx
RewardsKeys ==
  [LOCATION_SHARING |-> "captur_location_sharing",
   CAPT_BALANCE |-> "captur_token_balance"]
ProfileKeys ==
  [LOCATION_SHARING |-> "location_sharing_enabled",
   CAPT_BALANCE |-> "capt_balance"]

\* AsyncStorage.getItem(key) for a flag: flagStore is the item Rewards writes
\* under its LOCATION_SHARING key; no code writes an item under any other
\* flag key, so such a key has no item
GetFlagItem(key) ==
  IF key = RewardsKeys.LOCATION_SHARING THEN flagStore ELSE "null"

\* the profile screen is opened: useState(true), and the mount effect calls
\* loadLocationSharingState, which waits for getItem
ProfileMount ==
  /\ psh.pc = "unmounted"
  /\ psh' = [pc |-> "getItem", isLocationSharingEnabled |-> TRUE]
  /\ UNCHANGED <<pst, pui, sv, nSv, prow, claimVars, localStore, rwVars>>

\* loadLocationSharingState after its getItem: a stored value sets the flag
\* to (storedValue === 'true'), no value sets it to true, a rejected read is
\* logged and leaves the flag as it is
ProfileLoadFlag ==
  /\ psh.pc = "getItem"
  /\ \/ LET storedValue == GetFlagItem(ProfileKeys.LOCATION_SHARING)
        IN psh' = [pc |-> "loaded",
                   isLocationSharingEnabled |->
                     IF storedValue # "null" THEN storedValue = "true"
                     ELSE TRUE]
     \/ psh' = [psh EXCEPT !.pc = "failed"]
  /\ UNCHANGED <<pst, pui, sv, nSv, prow, claimVars, localStore, rwVars>>

\* the profile screen is left
ProfileUnmount ==
  /\ psh.pc # "unmounted"
  /\ psh' = [pc |-> "unmounted", isLocationSharingEnabled |-> TRUE]
  /\ UNCHANGED <<pst, pui, sv, nSv, prow, claimVars, localStore, rwVars>>

\* the Rewards view with its toggle, and the profile screen opened and left
NextS ==
  \/ FocusChange
  \/ Toggle
  \/ REffects
  \/ SaveFlag
  \/ \E live \in BOOLEAN : LoadFlag(live)
  \/ \E live \in BOOLEAN : LoadSaveDefault(live)
  \/ \E live \in BOOLEAN : LoadBalance(live)
  \/ hist.ticks < AllTicks /\ \E t \in 1..MaxTimers, d \in Draws : Tick(t, d)
  \/ ~focus /\ ProfileMount
  \/ ProfileLoadFlag
  \/ ProfileUnmount

\* the Rewards view has just been opened; the profile screen is not open
InitS ==
  /\ InitClaim
  /\ ProfileIdle
  /\ localStore = Null
  /\ remote = Null
  /\ RewardsFresh
  /\ mounted = TRUE
  /\ focus = TRUE
  /\ flagStore \in FlagInit

SpecS == InitS /\ [][NextS]_vars

\* C25: the value the profile screen loads on mount is the one Rewards last
\* persisted (true when nothing is persisted): after the user has switched
\* sharing off on Rewards and 'false' is stored, the profile screen's
\* isLocationSharingEnabled is false
C25_ProfileLoadsRewardsFlag ==
  [][psh.pc = "getItem" /\ psh'.pc = "loaded" =>
       psh'.isLocationSharingEnabled = (flagStore # "false")]_vars

====
